---------------------------- MODULE Spec2Model ----------------------------
(***************************************************************************)
(* A model of cols (src/main.rs): package discovery over a directory tree, *)
(* the sorted listing, and the provisioning of compile_commands.json       *)
(* symlinks.                                                               *)
(*                                                                         *)
(* File names are strings; Bytes gives the bytes of each name, which is    *)
(* what starts_with('.') and the ordering of String and Path look at.  A   *)
(* path is the sequence of its components: <<"/", "ws", "a">> is /ws/a and *)
(* <<".", "a">> is ./a.  The filesystem is a function from the real        *)
(* (symlink-free) absolute path of every existing object to its node.      *)
(***************************************************************************)
EXTENDS Integers, Sequences, FiniteSets, TLC

VARIABLES
    fs,            \* the filesystem: real path -> node
    args,          \* the parsed command line (MainArgs)
    pc,            \* where main() is: "main", "scan", "symlink", "done", "error"
    unique_paths,  \* collect_packages_from_args: unique_paths
    roots,         \* find_wrapper calls still to make: <<[dir, recurse], ...>>
    stack,         \* active find_packages calls: <<[dir, rest, recurse], ...>>
    res,           \* collect_packages_from_args: res
    queue,         \* main, Symlink arm: entries of res not yet handed to try_symlink
    fixed_build,   \* main, Symlink arm: fixed_build
    out,           \* the lines written to standard output
    listed,        \* history: the entries print_from_opts was called on
    descended,     \* history: children find_packages recursed into
    enumerated,    \* history: directories whose entries read_dir listed
    provisioned,   \* history: entries handed to try_symlink, and what it saw
    err            \* history: the directory whose read_dir failed

vars == <<fs, args, pc, unique_paths, roots, stack, res, queue, fixed_build,
          out, listed, descended, enumerated, provisioned, err>>

-----------------------------------------------------------------------------
(* Bounds of the model. *)

\* Symbolic links one path resolution may follow before the lookup fails
\* with ELOOP (40 on Linux; small here so that a link cycle stays small).
MaxSymlinks == 2
\* Longest list of entries handed to the listing in SpecAgg.
MaxEntries == 3
\* Longest list of raw paths in SpecNorm.
MaxPaths == 3
\* Longest batch of entries in SpecLink.
MaxBatch == 2

-----------------------------------------------------------------------------
(* Names, bytes and paths. *)

ROOT == "/"
CUR == "."
None == "-"

Bytes ==
       "/" :> <<47>> @@
       "." :> <<46>> @@
       "ws" :> <<119, 115>> @@
       "a" :> <<97>> @@
       "b" :> <<98>> @@
       "c" :> <<99>> @@
       ".h" :> <<46, 104>> @@
       "l" :> <<108>> @@
       "nx" :> <<110, 120>> @@
       "bld" :> <<98, 108, 100>> @@
       "old" :> <<111, 108, 100>> @@
       "p" :> <<112>> @@
       "q" :> <<113>> @@
       "w" :> <<119>> @@
       "h" :> <<104>> @@
       "package.xml" :> <<112, 97, 99, 107, 97, 103, 101, 46, 120, 109, 108>> @@
       "CMakeLists.txt" :> <<67, 77, 97, 107, 101, 76, 105, 115, 116, 115, 46, 116, 120, 116>> @@
       "compile_commands.json" :> <<99, 111, 109, 112, 105, 108, 101, 95, 99, 111, 109, 109, 97, 110, 100, 115, 46, 106, 115, 111, 110>> @@
       "COLCON_IGNORE" :> <<67, 79, 76, 67, 79, 78, 95, 73, 71, 78, 79, 82, 69>> @@
       "CATKIN_IGNORE" :> <<67, 65, 84, 75, 73, 78, 95, 73, 71, 78, 79, 82, 69>> @@
       "AMENT_IGNORE" :> <<65, 77, 69, 78, 84, 95, 73, 71, 78, 79, 82, 69>>

\* str::starts_with('.')
StartsWithDot(name) == Len(Bytes[name]) > 0 /\ Bytes[name][1] = 46

\* Lexicographic order of two byte strings (Ord for String and OsStr).
RECURSIVE BytesLess(_, _)
BytesLess(x, y) ==
    IF y = <<>> THEN FALSE
    ELSE IF x = <<>> THEN TRUE
    ELSE IF Head(x) # Head(y) THEN Head(x) < Head(y)
    ELSE BytesLess(Tail(x), Tail(y))

StrLess(s, t) == BytesLess(Bytes[s], Bytes[t])

\* std::path::Component derives Ord: RootDir < CurDir < Normal, and two
\* Normal components compare by their bytes.
CompRank(c) == IF c = ROOT THEN 1 ELSE IF c = CUR THEN 2 ELSE 4

CompLess(c, d) ==
    IF CompRank(c) # CompRank(d) THEN CompRank(c) < CompRank(d)
    ELSE CompRank(c) = 4 /\ StrLess(c, d)

\* Ord for Path: the components compared in order.
RECURSIVE PathLess(_, _)
PathLess(p, q) ==
    IF q = <<>> THEN FALSE
    ELSE IF p = <<>> THEN TRUE
    ELSE IF Head(p) # Head(q) THEN CompLess(Head(p), Head(q))
    ELSE PathLess(Tail(p), Tail(q))

Front(p) == SubSeq(p, 1, Len(p) - 1)
Last(p) == p[Len(p)]
Range(s) == {s[i] : i \in 1..Len(s)}

IsAbsolute(p) == Len(p) > 0 /\ p[1] = ROOT

\* Path::join / PathBuf::push: an absolute argument replaces the path.
Join(p, q) == IF IsAbsolute(q) THEN q ELSE p \o q

\* Path::file_name: the last component when it is a normal one.
FileName(p) == IF p = <<>> \/ Last(p) \in {ROOT, CUR} THEN None ELSE Last(p)

\* The working directory of the process.
cwd == <<"/", "ws">>

-----------------------------------------------------------------------------
(* The filesystem. *)

NoDoc == [wellformed |-> FALSE, name |-> None, build_type |-> None]
Doc(name, bt) == [wellformed |-> TRUE, name |-> name, build_type |-> bt]

\* perm: the directory's mode allows listing and searching it.
DirNode(perm) == [kind |-> "dir", perm |-> perm, target |-> <<>>, doc |-> NoDoc]
FileNode(doc) == [kind |-> "file", perm |-> TRUE, target |-> <<>>, doc |-> doc]
LinkNode(target) == [kind |-> "symlink", perm |-> TRUE, target |-> target, doc |-> NoDoc]

Fail == [ok |-> FALSE, path |-> <<>>]

\* Path resolution as stat(2) does it: from the real directory cur, look up
\* the components of rest one by one, following symbolic links (hops counts
\* them).  Yields the real path of the object, or Fail (ENOENT, ENOTDIR,
\* EACCES, ELOOP).
RECURSIVE Walk(_, _, _, _)
Walk(f, cur, rest, hops) ==
    IF rest = <<>> THEN [ok |-> TRUE, path |-> cur]
    ELSE IF Head(rest) = CUR THEN Walk(f, cur, Tail(rest), hops)
    ELSE IF f[cur].kind # "dir" \/ ~f[cur].perm THEN Fail
    ELSE LET nxt == Append(cur, Head(rest)) IN
         IF nxt \notin DOMAIN f THEN Fail
         ELSE IF f[nxt].kind = "symlink"
              THEN IF hops >= MaxSymlinks THEN Fail
                   ELSE Walk(f, <<ROOT>>, Tail(f[nxt].target) \o Tail(rest), hops + 1)
              ELSE Walk(f, nxt, Tail(rest), hops)

Resolve(f, p) ==
    IF IsAbsolute(p) THEN Walk(f, <<ROOT>>, Tail(p), 0) ELSE Walk(f, cwd, p, 0)

\* Path::exists, Path::is_dir: both follow symbolic links.
Exists(f, p) == Resolve(f, p).ok
IsDir(f, p) == LET r == Resolve(f, p) IN r.ok /\ f[r.path].kind = "dir"

\* The real path of the directory entry itself (lstat): the parent is
\* resolved, the last component is not followed.
LResolve(f, p) ==
    LET par == Resolve(f, Front(p)) IN
    IF p = <<>> \/ Last(p) \in {ROOT, CUR} THEN Resolve(f, p)
    ELSE IF ~par.ok \/ f[par.path].kind # "dir" \/ ~f[par.path].perm THEN Fail
    ELSE IF Append(par.path, Last(p)) \notin DOMAIN f THEN Fail
    ELSE [ok |-> TRUE, path |-> Append(par.path, Last(p))]

\* Path::is_symlink
IsSymlink(f, p) == LET r == LResolve(f, p) IN r.ok /\ f[r.path].kind = "symlink"

\* Path::canonicalize
Canonicalize(f, p) == Resolve(f, p)

\* fs::read_dir(dir) followed by flatten(): the names of the entries, or
\* an error.
ReadDir(f, dir) ==
    LET r == Resolve(f, dir) IN
    IF ~r.ok \/ f[r.path].kind # "dir" \/ ~f[r.path].perm
    THEN [ok |-> FALSE, names |-> {}]
    ELSE [ok |-> TRUE,
          names |-> {Last(q) : q \in {x \in DOMAIN f : Len(x) > 1 /\ Front(x) = r.path}}]

-----------------------------------------------------------------------------
(* Manifests and classification (check_path). *)

default_build_type == "ros.catkin"

default_export == [build_type |-> default_build_type]

IGNORE_MARKERS == <<"COLCON_IGNORE", "CATKIN_IGNORE", "AMENT_IGNORE">>

\* parse_package: open the file and deserialize a Package; name is
\* required, export and its build_type are defaulted.
parse_package(f, xml_file) ==
    LET r == Resolve(f, xml_file) IN
    IF ~r.ok \/ f[r.path].kind # "file" THEN [ok |-> FALSE, pkg |-> None]
    ELSE LET d == f[r.path].doc IN
         IF ~d.wellformed \/ d.name = None THEN [ok |-> FALSE, pkg |-> None]
         ELSE [ok |-> TRUE,
               pkg |-> [name |-> d.name,
                        export |-> IF d.build_type = None THEN default_export
                                   ELSE [build_type |-> d.build_type]]]

Entry(pkg, path) == [pkg |-> pkg, path |-> path]

NoEntry == Entry([name |-> None, export |-> default_export], <<>>)

Found(entry) == [tag |-> "Found", entry |-> entry]
Ignored == [tag |-> "Ignored", entry |-> NoEntry]
IsFile == [tag |-> "IsFile", entry |-> NoEntry]
Recurse == [tag |-> "Recurse", entry |-> NoEntry]

\* The test of lines 75-81: the base name of dir starts with '.'.
is_dot_file(dir) == FileName(dir) # None /\ StartsWithDot(FileName(dir))

\* The test of lines 83-88: dir holds one of the marker files.
has_ignore_marker(f, dir) ==
    \E i \in 1..Len(IGNORE_MARKERS) : Exists(f, Append(dir, IGNORE_MARKERS[i]))

check_path(f, dir) ==
    IF ~IsDir(f, dir) THEN IsFile
    ELSE IF is_dot_file(dir) THEN Ignored
    ELSE IF has_ignore_marker(f, dir) THEN Ignored
    ELSE LET pkg_xml == Append(dir, "package.xml")
             parsed == parse_package(f, pkg_xml)
         IN  IF Exists(f, pkg_xml) /\ parsed.ok
             THEN Found(Entry(parsed.pkg, dir))
             ELSE Recurse

-----------------------------------------------------------------------------
(* Input paths (preprocess_paths). *)

\* Itertools::dedup: of each run of equal consecutive elements the first
\* is kept.
RECURSIVE dedup(_)
dedup(s) ==
    IF Len(s) <= 1 THEN s
    ELSE IF s[1] = s[2] THEN dedup(Tail(s))
    ELSE <<s[1]>> \o dedup(Tail(s))

\* p.canonicalize().unwrap_or(p.clone())
canonicalize_or_keep(f, p) ==
    LET r == Canonicalize(f, p) IN IF r.ok THEN r.path ELSE p

\* Without the second dedup of line 147.
preprocess_paths_one_dedup(f, raw) ==
    LET d == dedup(raw) IN [i \in 1..Len(d) |-> canonicalize_or_keep(f, d[i])]

preprocess_paths(f, raw) ==
    LET d == dedup(raw) IN
    dedup([i \in 1..Len(d) |-> canonicalize_or_keep(f, d[i])])

-----------------------------------------------------------------------------
(* The listing (main, List arm). *)

\* A sort that looks at the name alone.
KeyLess_name_only(a, b) == StrLess(a.pkg.name, b.pkg.name)

\* The sort key of line 322, (&e.pkg.name, &e.path), in the order of tuples.
KeyLess(a, b) ==
    IF a.pkg.name # b.pkg.name THEN StrLess(a.pkg.name, b.pkg.name)
    ELSE PathLess(a.path, b.path)

KeyLeq(a, b) == ~KeyLess(b, a)

\* The predicate of dedup_by, line 323.
SameNameAndPath(a, b) == a.pkg.name = b.pkg.name /\ a.path = b.path

InsertAt(s, i, e) == SubSeq(s, 1, i - 1) \o <<e>> \o SubSeq(s, i, Len(s))

\* sorted_unstable_by_key: the result is a permutation of the input in
\* ascending key order; elements of equal key may come in any order.
RECURSIVE sorted_unstable_by_key(_)
sorted_unstable_by_key(s) ==
    IF s = <<>> THEN {<<>>}
    ELSE UNION { { InsertAt(t, i, Head(s)) :
                     i \in { j \in 1..(Len(t) + 1) :
                               /\ \A k \in 1..(j - 1) : KeyLeq(t[k], Head(s))
                               /\ \A k \in j..Len(t) : KeyLeq(Head(s), t[k]) } } :
                 t \in sorted_unstable_by_key(Tail(s)) }

\* Itertools::dedup_by: consecutive elements the predicate pairs collapse
\* to the first of them.
RECURSIVE dedup_by(_)
dedup_by(s) ==
    IF Len(s) <= 1 THEN s
    ELSE IF SameNameAndPath(s[1], s[2]) THEN dedup_by(<<s[1]>> \o Tail(Tail(s)))
    ELSE <<s[1]>> \o dedup_by(Tail(s))

\* Entry::print_from_opts: the line printed for one entry.
print_from_opts(e, list_args) ==
    IF list_args.names_only
    THEN [name |-> e.pkg.name, path |-> <<>>, build_type |-> None]
    ELSE IF list_args.paths_only
    THEN [name |-> None, path |-> e.path, build_type |-> None]
    ELSE [name |-> e.pkg.name, path |-> e.path, build_type |-> e.pkg.export.build_type]

-----------------------------------------------------------------------------
(* Symlink provisioning (try_symlink). *)

Absent == [kind |-> "absent", perm |-> FALSE, target |-> <<>>, doc |-> NoDoc]

\* What lstat finds at p.
NodeAt(f, p) == LET r == LResolve(f, p) IN IF r.ok THEN f[r.path] ELSE Absent

\* print_unless_quiet!
print_unless_quiet(quiet, line) == IF quiet THEN <<>> ELSE <<line>>

Line(level, what, name) == [level |-> level, what |-> what, name |-> name]

\* std::fs::remove_file(p): unlinks the entry p itself; allowed is whether
\* the system permits the call (directory permissions, read-only mount).
remove_file(f, p, allowed) ==
    LET r == LResolve(f, p) IN
    IF r.ok /\ f[r.path].kind # "dir" /\ allowed
    THEN [ok |-> TRUE, fs |-> [q \in DOMAIN f \ {r.path} |-> f[q]]]
    ELSE [ok |-> FALSE, fs |-> f]

\* std::os::unix::fs::symlink(original, link): fails when anything is at
\* link already (EEXIST), when the parent is no directory, or when the
\* system does not permit the call.
symlink(f, original, link, allowed) ==
    LET par == Resolve(f, Front(link))
        at == Append(par.path, Last(link))
    IN  IF par.ok /\ f[par.path].kind = "dir" /\ f[par.path].perm
           /\ at \notin DOMAIN f /\ allowed
        THEN [ok |-> TRUE, fs |-> (at :> LinkNode(original)) @@ f]
        ELSE [ok |-> FALSE, fs |-> f]

\* A target that leaves out the package's directory.
build_target_flat(entry, build_base) == Append(build_base, "compile_commands.json")

\* The build-side path of lines 196-198.
build_target(entry, build_base) ==
    Append(Append(build_base, entry.pkg.name), "compile_commands.json")

\* The source-side path of lines 193-195.
link_path(entry) ==
    Append(Front(Append(entry.path, "CMakeLists.txt")), "compile_commands.json")

\* An existing link removed whether or not force is set.
should_remove_unforced(f, link, force) == IsSymlink(f, link)

\* The test of line 200.
should_remove(f, link, force) == IsSymlink(f, link) /\ force

\* try_symlink: the filesystem it leaves, the lines it prints, and which
\* of its two filesystem calls it made ("no", "ok", "failed").
try_symlink(f, entry, build_base, quiet, force, rmAllowed, mkAllowed) ==
    LET cmake_file == Append(entry.path, "CMakeLists.txt")
        link_in_src_space == link_path(entry)
        target == build_target(entry, build_base)
        removing == should_remove(f, link_in_src_space, force)
        rm == IF removing THEN remove_file(f, link_in_src_space, rmAllowed)
              ELSE [ok |-> TRUE, fs |-> f]
        mk == symlink(rm.fs, target, link_in_src_space, mkAllowed)
        warn == IF removing
                THEN print_unless_quiet(quiet, Line("WARNING", "removing", entry.pkg.name))
                ELSE <<>>
    IN  IF ~Exists(f, cmake_file)
        THEN [fs |-> f, rm |-> "no", mk |-> "no",
              lines |-> print_unless_quiet(quiet, Line("INFO", "skipping", entry.pkg.name))]
        ELSE IF ~rm.ok
        THEN [fs |-> f, rm |-> "failed", mk |-> "no",
              lines |-> warn \o print_unless_quiet(quiet, Line("ERROR", "remove", entry.pkg.name))]
        ELSE IF ~mk.ok
        THEN [fs |-> rm.fs, rm |-> IF removing THEN "ok" ELSE "no", mk |-> "failed",
              lines |-> warn \o print_unless_quiet(quiet, Line("ERROR", "create", entry.pkg.name))]
        ELSE [fs |-> mk.fs, rm |-> IF removing THEN "ok" ELSE "no", mk |-> "ok",
              lines |-> warn \o print_unless_quiet(quiet, Line("INFO", "created", entry.pkg.name))]

\* rel_to_cwd
rel_to_cwd(f, build_base) == IF IsDir(f, cwd) THEN Join(cwd, build_base) ELSE build_base

\* Lines 330-333: fixed_build.
fix_build(f, build_base) ==
    LET r == Canonicalize(f, build_base) IN
    IF r.ok THEN r.path ELSE rel_to_cwd(f, build_base)

-----------------------------------------------------------------------------
(* The directory walk (find_wrapper, find_packages). *)

Frame(dir, rest, recurse) == [dir |-> dir, rest |-> rest, recurse |-> recurse]

\* A find_packages call whose loop has no entry left returns Ok(()).
RECURSIVE Unwind(_)
Unwind(stk) ==
    IF stk # <<>> /\ Last(stk).rest = {} THEN Unwind(Front(stk)) ELSE stk

\* The head of find_packages, lines 115-119: nothing to do for what is no
\* directory, an error when read_dir fails, else a loop over the entries.
enter_find_packages(f, stk, dir, recurse) ==
    LET rd == ReadDir(f, dir) IN
    IF ~IsDir(f, dir) THEN [ok |-> TRUE, listed |-> FALSE, stack |-> stk]
    ELSE IF ~rd.ok THEN [ok |-> FALSE, listed |-> FALSE, stack |-> stk]
    ELSE [ok |-> TRUE, listed |-> TRUE, stack |-> Append(stk, Frame(dir, rd.names, recurse))]

\* The roots collect_packages_from_args hands to find_wrapper, in order:
\* lines 158-169.
wrapper_calls(f, raw_paths, base_paths) ==
    LET unique == preprocess_paths(f, raw_paths)
        base == preprocess_paths(f, base_paths)
    IN  [i \in 1..Len(unique) |-> [dir |-> unique[i], recurse |-> FALSE]]
        \o (IF unique = <<>> /\ base_paths = <<>>
            THEN <<[dir |-> <<CUR>>, recurse |-> TRUE]>>
            ELSE [i \in 1..Len(base) |-> [dir |-> base[i], recurse |-> TRUE]])

NoErr == [dir |-> <<>>, top |-> FALSE]

\* collect_packages_from_args, lines 155-157: the paths are normalized.
CollectStart ==
    /\ pc = "main"
    /\ unique_paths' = preprocess_paths(fs, args.paths)
    /\ roots' = wrapper_calls(fs, args.paths, args.base_paths)
    /\ pc' = "scan"
    /\ UNCHANGED <<fs, args, stack, res, queue, fixed_build, out, listed,
                   descended, enumerated, provisioned, err>>

\* find_wrapper on the next root: the root is classified, then its
\* entries are listed.
FindWrapper ==
    /\ pc = "scan" /\ stack = <<>> /\ roots # <<>>
    /\ LET r == Head(roots)
           cp == check_path(fs, r.dir)
           res1 == IF cp.tag = "Found" THEN Append(res, cp.entry) ELSE res
           e == enter_find_packages(fs, <<>>, r.dir, r.recurse)
       IN  IF e.ok
           THEN /\ res' = res1
                /\ stack' = Unwind(e.stack)
                /\ roots' = Tail(roots)
                /\ enumerated' = IF e.listed THEN enumerated \cup {r.dir} ELSE enumerated
                /\ UNCHANGED <<pc, err>>
           ELSE /\ pc' = "error"
                /\ err' = [dir |-> r.dir, top |-> TRUE]
                /\ res' = <<>> /\ stack' = <<>> /\ roots' = <<>>
                /\ UNCHANGED enumerated
    /\ UNCHANGED <<fs, args, unique_paths, queue, fixed_build, out, listed,
                   descended, provisioned>>

\* One turn of the loop of find_packages, lines 119-130, in the innermost
\* active call; read_dir yields the entries in no particular order.
ScanEntry ==
    /\ pc = "scan" /\ stack # <<>>
    /\ LET top == Last(stack) IN
       \E name \in top.rest :
          LET path == Append(top.dir, name)
              check_outcome == check_path(fs, path)
              stack1 == Append(Front(stack), Frame(top.dir, top.rest \ {name}, top.recurse))
              e == enter_find_packages(fs, stack1, path, top.recurse)
          IN  IF check_outcome.tag = "Found"
              THEN /\ res' = Append(res, check_outcome.entry)
                   /\ stack' = Unwind(stack1)
                   /\ UNCHANGED <<pc, roots, err, descended, enumerated>>
              ELSE IF check_outcome.tag = "Recurse" /\ top.recurse
              THEN IF e.ok
                   THEN /\ stack' = Unwind(e.stack)
                        /\ descended' = descended \cup {path}
                        /\ enumerated' = IF e.listed THEN enumerated \cup {path}
                                         ELSE enumerated
                        /\ UNCHANGED <<pc, roots, res, err>>
                   ELSE /\ pc' = "error"
                        /\ err' = [dir |-> path, top |-> FALSE]
                        /\ res' = <<>> /\ stack' = <<>> /\ roots' = <<>>
                        /\ descended' = descended \cup {path}
                        /\ UNCHANGED enumerated
              ELSE /\ stack' = Unwind(stack1)
                   /\ UNCHANGED <<pc, roots, res, err, descended, enumerated>>
    /\ UNCHANGED <<fs, args, unique_paths, queue, fixed_build, out, listed, provisioned>>

ScanDone == pc = "scan" /\ stack = <<>> /\ roots = <<>>

\* main, List arm, lines 320-326: sort, drop duplicates, print.
ListPackages ==
    /\ ScanDone /\ args.command = "list"
    /\ \E s \in sorted_unstable_by_key(res) :
          LET d == dedup_by(s) IN
          /\ listed' = d
          /\ out' = [i \in 1..Len(d) |-> print_from_opts(d[i], args)]
    /\ pc' = "done"
    /\ UNCHANGED <<fs, args, unique_paths, roots, stack, res, queue, fixed_build,
                   descended, enumerated, provisioned, err>>

\* main, Symlink arm, lines 329-334: the build base is fixed and the loop
\* over res begins.
StartSymlink ==
    /\ ScanDone /\ args.command = "symlink"
    /\ fixed_build' = fix_build(fs, args.build_base)
    /\ queue' = res
    /\ pc' = IF res = <<>> THEN "done" ELSE "symlink"
    /\ UNCHANGED <<fs, args, unique_paths, roots, stack, res, out, listed,
                   descended, enumerated, provisioned, err>>

\* main, Symlink arm, lines 334-341: try_symlink on the next entry.
TrySymlink ==
    /\ pc = "symlink" /\ queue # <<>>
    /\ \E rmAllowed \in BOOLEAN, mkAllowed \in BOOLEAN :
          LET e == Head(queue)
              r == try_symlink(fs, e, fixed_build, args.quiet, args.force,
                               rmAllowed, mkAllowed)
          IN  /\ fs' = r.fs
              /\ out' = out \o r.lines
              /\ provisioned' = Append(provisioned,
                     [entry |-> e,
                      cmake |-> Exists(fs, Append(e.path, "CMakeLists.txt")),
                      before |-> NodeAt(fs, link_path(e)),
                      after |-> NodeAt(r.fs, link_path(e)),
                      allowed |-> [rm |-> rmAllowed, mk |-> mkAllowed],
                      rm |-> r.rm, mk |-> r.mk, lines |-> r.lines])
    /\ queue' = Tail(queue)
    /\ pc' = IF Tail(queue) = <<>> THEN "done" ELSE "symlink"
    /\ UNCHANGED <<args, unique_paths, roots, stack, res, fixed_build, listed,
                   descended, enumerated, err>>

Next == CollectStart \/ FindWrapper \/ ScanEntry \/ ListPackages \/ StartSymlink \/ TrySymlink

-----------------------------------------------------------------------------
(* Initial states: the directory trees and command lines the model runs on. *)

WS == <<"/", "ws">>
A == <<"/", "ws", "a">>
B == <<"/", "ws", "b">>
C == <<"/", "ws", "a", "c">>
H == <<"/", "ws", ".h">>
L == <<"/", "ws", "l">>
NX == <<"/", "nx">>
BLD == <<"/", "bld">>

Markers == Range(IGNORE_MARKERS)

Empty == [q \in {} |-> Absent]

\* The objects of one directory d, by the kind of directory it is.
DirOf(d, kind, name) ==
    IF kind = "absent" THEN Empty
    ELSE IF kind = "plain" THEN (d :> DirNode(TRUE))
    ELSE IF kind = "locked"
    THEN (d :> DirNode(FALSE)) @@ (Append(d, "package.xml") :> FileNode(Doc(name, None)))
    ELSE IF kind = "pkg"
    THEN (d :> DirNode(TRUE)) @@ (Append(d, "package.xml") :> FileNode(Doc(name, None)))
    ELSE IF kind = "bad"
    THEN (d :> DirNode(TRUE)) @@ (Append(d, "package.xml") :> FileNode(NoDoc))
    ELSE \* a package directory that holds the marker file named kind
         (d :> DirNode(TRUE)) @@ (Append(d, "package.xml") :> FileNode(Doc(name, None)))
         @@ (Append(d, kind) :> FileNode(NoDoc))

\* The symbolic link /ws/l.
LinkOf(kind) ==
    IF kind = "toA" THEN (L :> LinkNode(A))
    ELSE IF kind = "toWs" THEN (L :> LinkNode(WS))
    ELSE Empty

\* What a package directory holds for try_symlink.
BuildFilesOf(d, cmake, link) ==
    (IF cmake THEN (Append(d, "CMakeLists.txt") :> FileNode(NoDoc)) ELSE Empty)
    @@ (IF link = "absent" THEN Empty
        ELSE IF link = "file" THEN (Append(d, "compile_commands.json") :> FileNode(NoDoc))
        ELSE IF link = "dir" THEN (Append(d, "compile_commands.json") :> DirNode(TRUE))
        ELSE \* "stale": a symbolic link left by an earlier build layout
             (Append(d, "compile_commands.json")
                 :> LinkNode(<<"/", "old", "compile_commands.json">>)))

Tree(ws, a, c, b, h, l) ==
    (<<ROOT>> :> DirNode(TRUE))
    @@ DirOf(WS, ws, "w") @@ DirOf(A, a, "p") @@ DirOf(C, c, "q")
    @@ DirOf(B, b, "q") @@ DirOf(H, h, "h") @@ LinkOf(l)

ListArgs(paths, base_paths) ==
    [command |-> "list", paths |-> paths, base_paths |-> base_paths,
     names_only |-> FALSE, paths_only |-> FALSE,
     build_base |-> <<>>, quiet |-> FALSE, force |-> FALSE]

SymlinkArgs(paths, base_paths, build_base, quiet, force) ==
    [command |-> "symlink", paths |-> paths, base_paths |-> base_paths,
     names_only |-> FALSE, paths_only |-> FALSE,
     build_base |-> build_base, quiet |-> quiet, force |-> force]

\* The (paths, base_paths) pairs of the command lines.
PathArgs ==
    { <<<<>>, <<>>>>, <<<<>>, <<WS>>>>, <<<<A>>, <<>>>>, <<<<A>>, <<WS>>>>,
      <<<<>>, <<H>>>>, <<<<NX, <<"a">>>>, <<>>>> }

Fresh ==
    /\ unique_paths = <<>> /\ roots = <<>> /\ stack = <<>> /\ res = <<>>
    /\ queue = <<>> /\ fixed_build = <<>> /\ out = <<>> /\ listed = <<>>
    /\ descended = {} /\ enumerated = {} /\ provisioned = <<>> /\ err = NoErr

\* cols list
InitList ==
    /\ \E ws \in {"plain", "pkg", "CATKIN_IGNORE"},
          a \in {"plain", "pkg", "bad", "locked"} \cup Markers,
          c \in {"plain", "pkg"}, l \in {"absent", "toA", "toWs"} :
          fs = Tree(ws, a, c, "pkg", "pkg", l)
    /\ \E pa \in PathArgs : args = ListArgs(pa[1], pa[2])
    /\ pc = "main"
    /\ Fresh

\* cols symlink
InitSymlink ==
    /\ \E b \in {"plain", "pkg"}, cmake \in BOOLEAN,
          link \in {"absent", "stale", "file"} :
          fs = Tree("plain", "pkg", "plain", b, "absent", "absent")
               @@ BuildFilesOf(A, cmake, link) @@ BuildFilesOf(B, TRUE, "absent")
    /\ \E pa \in {<<<<>>, <<WS>>>>, <<<<A>>, <<WS>>>>, <<<<A, B, A>>, <<>>>>},
          bb \in {BLD, <<"bld">>}, quiet \in BOOLEAN, force \in BOOLEAN :
          args = SymlinkArgs(pa[1], pa[2], bb, quiet, force)
    /\ pc = "main"
    /\ Fresh

Init == InitList \/ InitSymlink

Spec == Init /\ [][Next]_vars

-----------------------------------------------------------------------------
(* The listing on its own: every list of at most MaxEntries entries, in   *)
(* each of the three projections.                                          *)

EntryPool ==
    { Entry([name |-> n, export |-> [build_type |-> bt]], path) :
        n \in {"p", "q"}, bt \in {default_build_type, "cmake"}, path \in {A, B} }
    \ { Entry([name |-> "q", export |-> [build_type |-> "cmake"]], path) : path \in {A, B} }

SeqsUpTo(S, n) == UNION { [1..k -> S] : k \in 0..n }

InitAgg ==
    /\ fs = Tree("plain", "pkg", "plain", "pkg", "absent", "absent")
    /\ \E names_only \in BOOLEAN, paths_only \in BOOLEAN :
          /\ ~(names_only /\ paths_only)
          /\ args = [ListArgs(<<A, B>>, <<>>) EXCEPT !.names_only = names_only,
                                                     !.paths_only = paths_only]
    /\ res \in SeqsUpTo(EntryPool, MaxEntries)
    /\ pc = "scan"
    /\ unique_paths = <<A, B>> /\ roots = <<>> /\ stack = <<>>
    /\ queue = <<>> /\ fixed_build = <<>> /\ out = <<>> /\ listed = <<>>
    /\ descended = {} /\ enumerated = {A, B} /\ provisioned = <<>> /\ err = NoErr

SpecAgg == InitAgg /\ [][ListPackages]_vars

-----------------------------------------------------------------------------
(* Path normalization on its own: every list of at most MaxPaths raw      *)
(* paths, with /ws/l absent, a link to /ws/a, or a link to /ws.            *)

PathPool == { A, L, <<"a">>, NX, <<"/", "ws", "l", "l", "l", "a">> }

InitNorm ==
    /\ \E l \in {"absent", "toA", "toWs"} :
          fs = Tree("plain", "pkg", "plain", "pkg", "absent", l)
    /\ \E raw \in SeqsUpTo(PathPool, MaxPaths) : args = ListArgs(raw, <<>>)
    /\ pc = "main"
    /\ Fresh

SpecNorm == InitNorm /\ [][CollectStart]_vars

-----------------------------------------------------------------------------
(* Provisioning on its own: every batch of at most MaxBatch entries over  *)
(* the packages /ws/a and /ws/b, whatever is at their link paths.          *)

EntryA == Entry([name |-> "p", export |-> default_export], A)
EntryB == Entry([name |-> "q", export |-> default_export], B)

InitLink ==
    /\ \E cmake \in BOOLEAN, la \in {"absent", "stale", "file", "dir"},
          lb \in {"absent", "stale"} :
          fs = Tree("plain", "pkg", "plain", "pkg", "absent", "absent")
               @@ BuildFilesOf(A, cmake, la) @@ BuildFilesOf(B, TRUE, lb)
    /\ \E quiet \in BOOLEAN, force \in BOOLEAN :
          args = SymlinkArgs(<<A, B>>, <<>>, BLD, quiet, force)
    /\ res \in SeqsUpTo({EntryA, EntryB}, MaxBatch) \ {<<>>}
    /\ queue = res
    /\ fixed_build = fix_build(fs, args.build_base)
    /\ pc = "symlink"
    /\ unique_paths = <<A, B>> /\ roots = <<>> /\ stack = <<>>
    /\ out = <<>> /\ listed = <<>>
    /\ descended = {} /\ enumerated = {A, B} /\ provisioned = <<>> /\ err = NoErr

SpecLink == InitLink /\ [][TrySymlink]_vars

-----------------------------------------------------------------------------
(* Properties of discovery, checked under Spec. *)

Prefixes(p) == {SubSeq(p, 1, k) : k \in 1..Len(p)}

StrictlyBeneath(p, d) == Len(d) < Len(p) /\ SubSeq(p, 1, Len(d)) = d

\* A directory the ignore rules exclude: its base name starts with '.',
\* or it directly holds a marker file.
Excluded(f, d) ==
    \/ (FileName(d) # None /\ StartsWithDot(FileName(d)))
    \/ (IsDir(f, d) /\ \E m \in Markers : Exists(f, Append(d, m)))

\* C1: no discovered entry has a path that is, or lies beneath, an excluded
\* directory (dot-named, or holding COLCON_IGNORE, CATKIN_IGNORE or
\* AMENT_IGNORE), the input root and its ancestors included.
C1_NoEntryUnderExcluded ==
    \A i \in 1..Len(res) : \A d \in Prefixes(res[i].path) : ~Excluded(fs, d)

\* C2: a directory classified Found is a leaf: its entries are never
\* listed, and no discovered entry lies strictly beneath the directory of
\* another one, the scan root included, in both modes.
C2_FoundIsLeaf ==
    /\ \A i \in 1..Len(res) : res[i].path \notin enumerated
    /\ \A i, j \in 1..Len(res) : ~StrictlyBeneath(res[j].path, res[i].path)

\* C5: a failure to read a directory other than a top-level root does not
\* make the scan return an error.
C5_ChildReadFailureSkipped == pc = "error" => err.top

\* C7: within one invocation no (name, path) pair is handed to try_symlink
\* twice.
C7_ProvisionedOnce ==
    \A i, j \in 1..Len(provisioned) :
        i < j => ~SameNameAndPath(provisioned[i].entry, provisioned[j].entry)

\* C8: the recursive scan never descends into a child that is a symbolic
\* link to a directory.
C8_NoDescentIntoSymlink == \A d \in descended : ~IsSymlink(fs, d)

\* C9: every discovered entry carries an absolute path.
C9_EntryPathsAbsolute == \A i \in 1..Len(res) : IsAbsolute(res[i].path)

-----------------------------------------------------------------------------
(* Properties of the listing, checked under SpecAgg. *)

\* (name, path) pairs in ascending order: by the bytes of the name, then
\* by the components of the path.
PairLess(a, b) ==
    \/ BytesLess(Bytes[a.pkg.name], Bytes[b.pkg.name])
    \/ (a.pkg.name = b.pkg.name /\ PathLess(a.path, b.path))

Pair(e) == <<e.pkg.name, e.path>>
Pairs(s) == [i \in 1..Len(s) |-> Pair(s[i])]

Rearrangements(s) ==
    { [i \in 1..Len(s) |-> s[f[i]]] :
        f \in { g \in [1..Len(s) -> 1..Len(s)] :
                  \A i, j \in 1..Len(s) : g[i] = g[j] => i = j } }

\* C3: the listing is the strictly ascending sequence of exactly the
\* distinct (name, path) pairs of the input; equal pairs collapse, equal
\* names at different paths survive; every permutation of the input lists
\* the same pairs, and listing the output again returns it unchanged.
C3_ListingSortedDistinct ==
    pc = "done" =>
        /\ \A i \in 1..(Len(listed) - 1) : PairLess(listed[i], listed[i + 1])
        /\ Range(Pairs(listed)) = Range(Pairs(res))
        /\ \A perm \in Rearrangements(res) : \A s \in sorted_unstable_by_key(perm) :
               Pairs(dedup_by(s)) = Pairs(listed)
        /\ \A s \in sorted_unstable_by_key(listed) : dedup_by(s) = listed

\* A listing in which a duplicate pair collapsed while two paths of one
\* name both survived.
C3_Witness ==
    /\ pc = "done"
    /\ Len(listed) < Len(res)
    /\ \E i, j \in 1..Len(listed) :
          i # j /\ listed[i].pkg.name = listed[j].pkg.name
    /\ \E i \in 1..(Len(res) - 1) : PairLess(res[i + 1], res[i])

-----------------------------------------------------------------------------
(* Properties of path normalization, checked under SpecNorm. *)

\* C4: normalizing the normalized list of paths returns it unchanged.
C4_NormalizeIdempotent ==
    pc = "scan" =>
        /\ unique_paths = preprocess_paths(fs, args.paths)
        /\ preprocess_paths(fs, unique_paths) = unique_paths

\* A normalization that resolved a symbolic link, kept a path it could not
\* canonicalize, and dropped a duplicate that only canonicalization made
\* adjacent.
C4_Witness ==
    /\ pc = "scan"
    /\ \E i \in 1..Len(args.paths) :
          /\ Canonicalize(fs, args.paths[i]).ok
          /\ Canonicalize(fs, args.paths[i]).path # args.paths[i]
    /\ \E i \in 1..Len(unique_paths) : ~Canonicalize(fs, unique_paths[i]).ok
    /\ Len(unique_paths) < Len(dedup(args.paths))

-----------------------------------------------------------------------------
(* Properties of provisioning, checked under SpecLink. *)

Reported(r) == \E i \in 1..Len(r.lines) : r.lines[i].what \in {"skipping", "create"}

\* C6: with force unset, an entry whose link path already exists is left
\* exactly as it was and its failure is reported unless quiet; every entry
\* of the batch is attempted, in order, whatever failed before it, and
\* main never ends in an error.
C6_ExistingLinkKept ==
    /\ pc # "error"
    /\ Len(provisioned) + Len(queue) = Len(res)
    /\ \A i \in 1..Len(provisioned) : provisioned[i].entry = res[i]
    /\ pc = "done" => queue = <<>>
    /\ \A i \in 1..Len(provisioned) :
          LET r == provisioned[i] IN
          (~args.force /\ r.before.kind # "absent") =>
              /\ r.after = r.before
              /\ r.rm = "no" /\ r.mk # "ok"
              /\ IF args.quiet THEN r.lines = <<>> ELSE Reported(r)

\* A batch, force unset, in which an entry with an existing link was left
\* alone and a later entry still got its link.
C6_Witness ==
    /\ pc = "done" /\ ~args.force
    /\ \E i, j \in 1..Len(provisioned) :
          /\ i < j
          /\ provisioned[i].cmake
          /\ provisioned[i].before.kind = "symlink"
          /\ provisioned[i].after = provisioned[i].before
          /\ provisioned[j].mk = "ok"

\* The link try_symlink is to leave for entry e.
WantedLink(e) ==
    LinkNode(fixed_build \o <<e.pkg.name, "compile_commands.json">>)

\* C10: for an entry with a CMakeLists.txt, when the link path is absent,
\* or is a symbolic link and force is set, and the system permits the
\* remove and create calls, the link path ends as a symbolic link to
\* <build_base>/<name>/compile_commands.json; what is at the link path and
\* is no symbolic link is never removed or replaced.
C10_LinkCreatedOrKept ==
    \A i \in 1..Len(provisioned) :
        LET r == provisioned[i] IN
        /\ ( /\ r.cmake
             /\ \/ r.before.kind = "absent"
                \/ (r.before.kind = "symlink" /\ args.force)
             /\ r.allowed.rm /\ r.allowed.mk )
           => r.after = WantedLink(r.entry)
        /\ r.before.kind \notin {"absent", "symlink"} => r.after = r.before

\* A forced run that replaced a stale link, and one that kept a regular
\* file.
C10_Witness ==
    /\ args.force
    /\ \E i, j \in 1..Len(provisioned) :
          /\ provisioned[i].before.kind = "symlink"
          /\ provisioned[i].before # WantedLink(provisioned[i].entry)
          /\ provisioned[i].after = WantedLink(provisioned[i].entry)
          /\ provisioned[j].cmake
          /\ provisioned[j].before.kind = "file"
          /\ provisioned[j].after = provisioned[j].before

=============================================================================
